---- MODULE Spec2Model ----
(***************************************************************************)
(* Model of jobfunnel/backend/tools/filters.py: tfidf_filter, the content  *)
(* de-duplication of a freshly scraped batch of jobs, and the duplicate    *)
(* memory file it loads and rewrites.                                      *)
(*                                                                         *)
(* A batch (cur_dict, prev_dict) is a function from key_id to the job's    *)
(* description.  A Job object is referred to by the dict that holds it and *)
(* its key_id.  Dicts are iterated in the order KeyOrder.                  *)
(*                                                                         *)
(* The TF-IDF vector space is refit on every call (line 168), so the       *)
(* cosine similarity of two different texts is an outcome of the call:     *)
(* xy_similarity is drawn per call from 0..Scale.  What cosine similarity  *)
(* fixes is kept: a text compared with itself gives the maximum, and a     *)
(* text that has no token left after stop-word removal gives 0 with        *)
(* everything.                                                             *)
(*                                                                         *)
(* update_job_if_newer is a collaborator outside this file; the model      *)
(* records each call (target, source) in merge_calls.                      *)
(***************************************************************************)
EXTENDS Integers, Sequences, FiniteSets, TLC

\* Similarities are the levels 0..Scale (Scale stands for 1.0).
Scale == 2

KeyIds == {"a", "b"}
KeyOrder == <<"a", "b">>

\* "" is the empty description, "the" has only stop words, "x" and "y" are
\* two different texts with vocabulary.
Descriptions == {"", "the", "x", "y"}

Procs == {1, 2}

None == "None"
PATH == "duplicates.json"

EmptyDict == [k \in {} |-> ""]

Batches == UNION {[K -> Descriptions] : K \in SUBSET KeyIds}

\* prev_dict: Optional[Dict]; is_none is the default None.
NonePrev == [is_none |-> TRUE, jobs |-> EmptyDict]
PrevArgs == {NonePrev} \cup {[is_none |-> FALSE, jobs |-> b] : b \in Batches}

\* max_similarity; Scale + 1 is a threshold above 1.0.
Thresholds == 0..(Scale + 1)

\* The file at PATH: missing, or a JSON object key_id -> snapshot.
NoFile == [exists |-> FALSE, data |-> EmptyDict]

VARIABLES
    file,                          \* the duplicate-memory file at PATH
    pc,                            \* position of each invocation
    cur_dict, prev_dict,           \* arguments of each invocation
    max_similarity, duplicate_jobs_file,
    existing_duplicate_jobs_dict,  \* what the invocation loaded
    query_ids, reference_ids,      \* the eligible ids of both sides
    xy_similarity,                 \* cosine("x", "y") in this call's vector space
    duplicate_jobs_list,           \* the list the invocation builds and returns
    merge_calls,                   \* update_job_if_newer calls, in order
    error,                         \* the exception the invocation raised
    cur_at_call, file_at_call,     \* history: cur_dict and file when called
    rerun,                         \* history: a second call on the same objects
    first_removed,                 \* history: what the call before a rerun removed
    wrote,                         \* history: the invocation wrote the file
    overlap,                       \* history: a load happened between another's load and save
    last_writer                    \* history: the invocation that wrote last

vars == <<file, pc, cur_dict, prev_dict, max_similarity, duplicate_jobs_file,
          existing_duplicate_jobs_dict, query_ids, reference_ids,
          xy_similarity, duplicate_jobs_list, merge_calls, error, cur_at_call,
          file_at_call, rerun, first_removed, wrote, overlap, last_writer>>

----------------------------------------------------------------------------
\* Helpers

Job(dict, k) == [dict |-> dict, key_id |-> k]

\* Job.as_json_entry: the snapshot stored in the file (opaque to this file).
as_json_entry(job) == <<"entry", job.key_id>>

\* TfidfVectorizer(stop_words=...): does any token survive?
HasVocabulary(d) == d \in {"x", "y"}

\* dict.update
DictUpdate(d, e) ==
    [k \in (DOMAIN d) \cup (DOMAIN e) |-> IF k \in DOMAIN e THEN e[k] ELSE d[k]]

\* A removal that pops nothing.
DictPopAll_pops_nothing(d, ks) == d

\* dict.pop for each key of a set
DictPopAll(d, ks) == [k \in (DOMAIN d) \ ks |-> d[k]]

SeqToSet(s) == {s[i] : i \in 1..Len(s)}

RECURSIVE Flatten(_)
Flatten(ss) == IF ss = <<>> THEN <<>> ELSE Head(ss) \o Flatten(Tail(ss))

----------------------------------------------------------------------------
\* The nested helper of lines 121-152.  jobs_dict is its parameter; the loop
\* of line 129 iterates cur_dict, the variable of the enclosing function.

\* The helper without the test of line 130.
dict_to_ids_and_words_keeps_known(jobs_dict, cur, existing_duplicate_keys) ==
    LET iterated == cur
        Kept(k) == k \in DOMAIN iterated /\ iterated[k] # ""
        ids == SelectSeq(KeyOrder, Kept)
    IN  [ids    |-> ids,
         words  |-> [i \in 1..Len(ids) |-> iterated[ids[i]]],
         filt   |-> [k \in SeqToSet(ids) |-> Job("cur_dict", k)],
         raised |-> ids = <<>>]

dict_to_ids_and_words(jobs_dict, cur, existing_duplicate_keys) ==
    LET iterated == cur
        Kept(k) == /\ k \in DOMAIN iterated
                   /\ k \notin existing_duplicate_keys
                   /\ iterated[k] # ""
        ids == SelectSeq(KeyOrder, Kept)
    IN  [ids    |-> ids,
         words  |-> [i \in 1..Len(ids) |-> iterated[ids[i]]],
         filt   |-> [k \in SeqToSet(ids) |-> Job("cur_dict", k)],
         raised |-> ids = <<>>]

\* vectorizer.fit(corpus), line 168: fails on a corpus without vocabulary.
FitRaises(corpus) == \A i \in 1..Len(corpus) : ~HasVocabulary(corpus[i])

\* One cell of cosine_similarity(...), lines 173-176; s is this call's
\* similarity of the two different texts.
cosine_similarity(d, e, s) ==
    IF ~HasVocabulary(d) \/ ~HasVocabulary(e) THEN 0
    ELSE IF d = e THEN Scale
    ELSE s

similarities_per_query(query_words, reference_words, s) ==
    [i \in 1..Len(query_words) |->
        [j \in 1..Len(reference_words) |->
            cosine_similarity(query_words[i], reference_words[j], s)]]

\* Line 184 with the comparison turned around.
similar_indexes_below(query_similarities, t) ==
    LET Similar(j) == query_similarities[j] <= t
    IN  SelectSeq([j \in 1..Len(query_similarities) |-> j], Similar)

\* np.where(query_similarities >= max_similarity)[0], line 184
similar_indexes(query_similarities, t) ==
    LET Similar(j) == query_similarities[j] >= t
    IN  SelectSeq([j \in 1..Len(query_similarities) |-> j], Similar)

\* The loop of lines 180-189: the update_job_if_newer calls, in order.  The
\* job appended to duplicate_jobs_list by each pass is the call's source.
MergeCalls(q, r, sims, t) ==
    Flatten([i \in 1..Len(q.ids) |->
        LET idx == similar_indexes(sims[i], t)
        IN  [m \in 1..Len(idx) |->
                [target |-> r.filt[r.ids[idx[m]]],
                 source |-> q.filt[q.ids[i]]]]])

\* Lines 154-194 for given arguments: the extraction of both sides, the
\* matrix and what the loop leaves behind.
Resolution(cur, prev, existing, s, t) ==
    LET q     == dict_to_ids_and_words(cur, cur, DOMAIN existing)
        r     == dict_to_ids_and_words(prev, cur, DOMAIN existing)
        sims  == similarities_per_query(q.words, r.words, s)
        calls == MergeCalls(q, r, sims, t)
        dups  == [n \in 1..Len(calls) |-> calls[n].source]
    IN  [query         |-> q,
         reference     |-> r,
         no_text       |-> q.raised \/ r.raised,
         no_vocabulary |-> FitRaises(q.words \o r.words),
         calls         |-> calls,
         duplicate_jobs_list |-> dups,
         duplicate_ids |-> {dups[n].key_id : n \in 1..Len(dups)}]

----------------------------------------------------------------------------
Init ==
    /\ file = NoFile
    /\ pc = [p \in Procs |-> "idle"]
    /\ cur_dict = [p \in Procs |-> EmptyDict]
    /\ prev_dict = [p \in Procs |-> NonePrev]
    /\ max_similarity = [p \in Procs |-> Scale]
    /\ duplicate_jobs_file = [p \in Procs |-> None]
    /\ existing_duplicate_jobs_dict = [p \in Procs |-> EmptyDict]
    /\ query_ids = [p \in Procs |-> <<>>]
    /\ reference_ids = [p \in Procs |-> <<>>]
    /\ xy_similarity = [p \in Procs |-> 0]
    /\ duplicate_jobs_list = [p \in Procs |-> <<>>]
    /\ merge_calls = [p \in Procs |-> <<>>]
    /\ error = [p \in Procs |-> "none"]
    /\ cur_at_call = [p \in Procs |-> EmptyDict]
    /\ file_at_call = [p \in Procs |-> NoFile]
    /\ rerun = [p \in Procs |-> FALSE]
    /\ first_removed = [p \in Procs |-> {}]
    /\ wrote = [p \in Procs |-> FALSE]
    /\ overlap = FALSE
    /\ last_writer = 0

\* Entry of tfidf_filter up to the load of the file, lines 46-119.
Begin(p, c, pv, t, f, again) ==
    /\ query_ids' = [query_ids EXCEPT ![p] = <<>>]
    /\ reference_ids' = [reference_ids EXCEPT ![p] = <<>>]
    /\ first_removed' = [first_removed EXCEPT
           ![p] = IF again THEN (DOMAIN cur_at_call[p]) \ (DOMAIN cur_dict[p]) ELSE {}]
    /\ cur_dict' = [cur_dict EXCEPT ![p] = c]
    /\ prev_dict' = [prev_dict EXCEPT ![p] = pv]
    /\ max_similarity' = [max_similarity EXCEPT ![p] = t]
    /\ duplicate_jobs_file' = [duplicate_jobs_file EXCEPT ![p] = f]
    /\ existing_duplicate_jobs_dict' =
           [existing_duplicate_jobs_dict EXCEPT
               ![p] = IF f # None /\ file.exists THEN file.data ELSE EmptyDict]
    /\ xy_similarity' = [xy_similarity EXCEPT ![p] = 0]
    /\ duplicate_jobs_list' = [duplicate_jobs_list EXCEPT ![p] = <<>>]
    /\ merge_calls' = [merge_calls EXCEPT ![p] = <<>>]
    /\ error' = [error EXCEPT ![p] = "none"]
    /\ cur_at_call' = [cur_at_call EXCEPT ![p] = c]
    /\ file_at_call' = [file_at_call EXCEPT ![p] = file]
    /\ rerun' = [rerun EXCEPT ![p] = again]
    /\ wrote' = [wrote EXCEPT ![p] = FALSE]
    /\ overlap' = (overlap \/ \E q \in Procs \ {p} : pc[q] \in {"loaded", "resolved"})
    /\ pc' = [pc EXCEPT ![p] = "loaded"]
    /\ UNCHANGED <<file, last_writer>>

\* A call with fresh arguments.
Load(p, from, curs, prevs) ==
    /\ pc[p] \in from
    /\ \E c \in curs, pv \in prevs, t \in Thresholds, f \in {None, PATH} :
           Begin(p, c, pv, t, f, FALSE)

\* A second call on the objects the last call returned from: the pruned
\* cur_dict, the same prev_dict, threshold and path.
Rerun(p) ==
    /\ pc[p] = "returned"
    /\ Begin(p, cur_dict[p], prev_dict[p], max_similarity[p],
             duplicate_jobs_file[p], TRUE)

Raise(p, e) ==
    /\ pc' = [pc EXCEPT ![p] = "raised"]
    /\ error' = [error EXCEPT ![p] = e]
    /\ UNCHANGED <<cur_dict, query_ids, reference_ids, xy_similarity,
                   duplicate_jobs_list, merge_calls>>

\* Lines 154-206: extraction, fit, similarity, the merge loop and the
\* removal from cur_dict.
Resolve(p) ==
    /\ pc[p] = "loaded"
    /\ LET pre == Resolution(cur_dict[p], prev_dict[p].jobs,
                             existing_duplicate_jobs_dict[p], 0, max_similarity[p])
       IN  IF pre.no_text THEN Raise(p, "NoEligibleText")
           ELSE IF pre.no_vocabulary THEN Raise(p, "EmptyVocabulary")
           ELSE \E s \in 0..Scale :
                LET res == Resolution(cur_dict[p], prev_dict[p].jobs,
                                      existing_duplicate_jobs_dict[p], s,
                                      max_similarity[p])
                IN  /\ query_ids' = [query_ids EXCEPT ![p] = res.query.ids]
                    /\ reference_ids' = [reference_ids EXCEPT ![p] = res.reference.ids]
                    /\ xy_similarity' = [xy_similarity EXCEPT ![p] = s]
                    /\ merge_calls' = [merge_calls EXCEPT ![p] = res.calls]
                    /\ duplicate_jobs_list' =
                           [duplicate_jobs_list EXCEPT ![p] = res.duplicate_jobs_list]
                    /\ cur_dict' = [cur_dict EXCEPT
                           ![p] = DictPopAll(@, res.duplicate_ids)]
                    /\ error' = error
                    /\ pc' = [pc EXCEPT ![p] = "resolved"]
    /\ UNCHANGED <<file, prev_dict, max_similarity, duplicate_jobs_file,
                   existing_duplicate_jobs_dict, cur_at_call, file_at_call,
                   rerun, first_removed, wrote, overlap, last_writer>>

\* A save of the new entries alone, without the update of line 211.
SavedDict_new_only(existing, dups) ==
    [k \in {dups[n].key_id : n \in 1..Len(dups)} |->
        as_json_entry(Job("cur_dict", k))]

\* What lines 211-224 leave in the file.
SavedDict(existing, dups) ==
    DictUpdate(existing,
               [k \in {dups[n].key_id : n \in 1..Len(dups)} |->
                   as_json_entry(Job("cur_dict", k))])

\* A save that does not ask whether duplicates were found (line 191).
ShouldSave_without_duplicates(dups, path) == path # None

\* The conditions of lines 191 and 208.
ShouldSave(dups, path) == dups # <<>> /\ path # None

\* Lines 208-232: the save of the merged dict, and the return.
SaveAndReturn(p) ==
    /\ pc[p] = "resolved"
    /\ IF ShouldSave(duplicate_jobs_list[p], duplicate_jobs_file[p])
       THEN LET d == SavedDict(existing_duplicate_jobs_dict[p],
                               duplicate_jobs_list[p])
            IN  /\ existing_duplicate_jobs_dict' =
                       [existing_duplicate_jobs_dict EXCEPT ![p] = d]
                /\ file' = [exists |-> TRUE, data |-> d]
                /\ wrote' = [wrote EXCEPT ![p] = TRUE]
                /\ last_writer' = p
       ELSE UNCHANGED <<existing_duplicate_jobs_dict, file, wrote, last_writer>>
    /\ pc' = [pc EXCEPT ![p] = "returned"]
    /\ UNCHANGED <<cur_dict, prev_dict, max_similarity, duplicate_jobs_file,
                   query_ids, reference_ids, xy_similarity,
                   duplicate_jobs_list, merge_calls, error, cur_at_call,
                   file_at_call, rerun, first_removed, overlap>>

\* After the return of line 232 or the exception, the call's locals are gone
\* and the caller lets go of the batches; only the file stays.
Discard(p) ==
    /\ pc[p] \in {"returned", "raised"}
    /\ pc' = [pc EXCEPT ![p] = "idle"]
    /\ cur_dict' = [cur_dict EXCEPT ![p] = EmptyDict]
    /\ prev_dict' = [prev_dict EXCEPT ![p] = NonePrev]
    /\ max_similarity' = [max_similarity EXCEPT ![p] = Scale]
    /\ duplicate_jobs_file' = [duplicate_jobs_file EXCEPT ![p] = None]
    /\ existing_duplicate_jobs_dict' =
           [existing_duplicate_jobs_dict EXCEPT ![p] = EmptyDict]
    /\ query_ids' = [query_ids EXCEPT ![p] = <<>>]
    /\ reference_ids' = [reference_ids EXCEPT ![p] = <<>>]
    /\ first_removed' = [first_removed EXCEPT ![p] = {}]
    /\ xy_similarity' = [xy_similarity EXCEPT ![p] = 0]
    /\ duplicate_jobs_list' = [duplicate_jobs_list EXCEPT ![p] = <<>>]
    /\ merge_calls' = [merge_calls EXCEPT ![p] = <<>>]
    /\ error' = [error EXCEPT ![p] = "none"]
    /\ cur_at_call' = [cur_at_call EXCEPT ![p] = EmptyDict]
    /\ file_at_call' = [file_at_call EXCEPT ![p] = NoFile]
    /\ rerun' = [rerun EXCEPT ![p] = FALSE]
    /\ wrote' = [wrote EXCEPT ![p] = FALSE]
    /\ UNCHANGED <<file, overlap, last_writer>>

\* One caller, one invocation after the other.
Call == Load(1, {"idle"}, Batches, PrevArgs)
CallAgain == Rerun(1)
ResolveStep == Resolve(1)
SaveStep == SaveAndReturn(1)
Done == Discard(1)

Next == Call \/ CallAgain \/ ResolveStep \/ SaveStep \/ Done

Spec == Init /\ [][Next]_vars

\* Two callers at once on the same path, one invocation each, every batch one
\* job with vocabulary.
ConcBatches ==
    {b \in Batches : Cardinality(DOMAIN b) = 1 /\ \A k \in DOMAIN b : HasVocabulary(b[k])}

NextConc ==
    \E p \in Procs :
        \/ Load(p, {"idle"}, ConcBatches, {NonePrev})
        \/ Resolve(p)
        \/ SaveAndReturn(p)

SpecConc == Init /\ [][NextConc]_vars

----------------------------------------------------------------------------
\* Vocabulary of the properties

Finished(p) == pc[p] \in {"returned", "raised"}
Resolved(p) == pc[p] \in {"resolved", "returned"}

\* The key_ids the call removed from the current batch.
Removed(p) == (DOMAIN cur_at_call[p]) \ (DOMAIN cur_dict[p])

\* The known-duplicate ids of the call: the entries of the file when called.
Known(p) ==
    IF duplicate_jobs_file[p] # None /\ file_at_call[p].exists
    THEN DOMAIN file_at_call[p].data ELSE {}

\* The jobs of a batch that are neither known duplicates nor without text.
Eligible(batch, known) == {k \in DOMAIN batch : k \notin known /\ batch[k] # ""}

\* The similarity of two texts in the vector space of the call.
Similarity(p, d, e) == cosine_similarity(d, e, xy_similarity[p])

KeysOf(jobs) == {jobs[n].key_id : n \in 1..Len(jobs)}

CallsOf(p, target_key, source_key) ==
    {n \in 1..Len(merge_calls[p]) :
        /\ merge_calls[p][n].target.key_id = target_key
        /\ merge_calls[p][n].source.key_id = source_key}

----------------------------------------------------------------------------
\* C1: when a call with a previous batch that has eligible jobs returns, the
\* key_ids it removed from the current batch are exactly the eligible current
\* jobs that have an eligible previous job with similarity >= max_similarity.
C1_RemovedAreThoseMatchingPrevious ==
    \A p \in Procs :
        (/\ pc[p] = "returned"
         /\ ~prev_dict[p].is_none
         /\ Eligible(prev_dict[p].jobs, Known(p)) # {}) =>
            Removed(p) =
                {i \in Eligible(cur_at_call[p], Known(p)) :
                    \E j \in Eligible(prev_dict[p].jobs, Known(p)) :
                        Similarity(p, cur_at_call[p][i], prev_dict[p].jobs[j])
                            >= max_similarity[p]}

\* C2: in a call with a previous batch that has eligible jobs, every merge
\* call has a job of the previous batch as target and a job of the current
\* batch as source, and each (current i, previous j) pair of eligible jobs
\* gets exactly one call if its similarity is >= max_similarity and none
\* otherwise.
C2_MergeTargetsArePreviousJobs ==
    \A p \in Procs :
        (/\ Resolved(p)
         /\ ~prev_dict[p].is_none
         /\ Eligible(prev_dict[p].jobs, Known(p)) # {}) =>
            /\ \A n \in 1..Len(merge_calls[p]) :
                   /\ merge_calls[p][n].target.dict = "prev_dict"
                   /\ merge_calls[p][n].source.dict = "cur_dict"
            /\ \A i \in Eligible(cur_at_call[p], Known(p)) :
                   \A j \in Eligible(prev_dict[p].jobs, Known(p)) :
                       Cardinality(CallsOf(p, j, i)) =
                           IF Similarity(p, cur_at_call[p][i], prev_dict[p].jobs[j])
                                  >= max_similarity[p]
                           THEN 1 ELSE 0

\* C3: when the previous batch is omitted, no job is merged with itself, and
\* a job whose similarity to every other eligible current job is below the
\* threshold is still in the current batch when the call returns.
C3_NoSelfPairsWithoutPrevious ==
    \A p \in Procs :
        (Resolved(p) /\ prev_dict[p].is_none) =>
            /\ \A n \in 1..Len(merge_calls[p]) :
                   merge_calls[p][n].target.key_id # merge_calls[p][n].source.key_id
            /\ \A i \in Eligible(cur_at_call[p], Known(p)) :
                   (\A j \in Eligible(cur_at_call[p], Known(p)) \ {i} :
                        Similarity(p, cur_at_call[p][i], cur_at_call[p][j])
                            < max_similarity[p])
                   => i \in DOMAIN cur_dict[p]

\* C4: the returned list holds no key_id twice, and its key_ids are those
\* removed from the current batch.
C4_ReturnedListHasNoRepeats ==
    \A p \in Procs :
        pc[p] = "returned" =>
            /\ \A m, n \in 1..Len(duplicate_jobs_list[p]) :
                   duplicate_jobs_list[p][m].key_id = duplicate_jobs_list[p][n].key_id
                       => m = n
            /\ KeysOf(duplicate_jobs_list[p]) = Removed(p)

\* C7: a call whose fit does not fail ends in the no-eligible-text error
\* exactly when the eligible jobs of the current batch or those of the
\* previous batch (the current one when the previous is omitted) are none,
\* and a failed call has made no merge call, removed nothing and written
\* nothing.
C7_NoTextErrorIffEitherSideEmpty ==
    \A p \in Procs :
        (Finished(p) /\ error[p] # "EmptyVocabulary") =>
            LET other == IF prev_dict[p].is_none THEN cur_at_call[p]
                         ELSE prev_dict[p].jobs
            IN  /\ (pc[p] = "raised" /\ error[p] = "NoEligibleText")
                       <=> \/ Eligible(cur_at_call[p], Known(p)) = {}
                           \/ Eligible(other, Known(p)) = {}
                /\ pc[p] = "raised" =>
                       /\ merge_calls[p] = <<>>
                       /\ cur_dict[p] = cur_at_call[p]
                       /\ ~wrote[p]

\* C5: an entry of the duplicate-memory file is never lost by a later run,
\* and in a run on that path a job whose key_id was an entry when the run was
\* called is in neither id list of the comparison, in no merge call, not in
\* the returned list and not removed from the current batch.
C5_Excluded(p) ==
    \A k \in Known(p) :
        /\ k \notin SeqToSet(query_ids[p]) \cup SeqToSet(reference_ids[p])
        /\ \A n \in 1..Len(merge_calls[p]) :
               /\ merge_calls[p][n].target.key_id # k
               /\ merge_calls[p][n].source.key_id # k
        /\ k \notin KeysOf(duplicate_jobs_list[p])
        /\ k \notin Removed(p)

C5_MonotonicExclusion ==
    /\ [][file.exists => (file'.exists /\ DOMAIN file.data \subseteq DOMAIN file'.data)]_vars
    /\ [](\A p \in Procs : C5_Excluded(p))

\* C5 witness: a run on the path has returned duplicates while a job with
\* vocabulary whose key_id was already an entry sat in both batches.
C5_Witness ==
    /\ pc[1] = "returned"
    /\ duplicate_jobs_list[1] # <<>>
    /\ wrote[1]
    /\ ~prev_dict[1].is_none
    /\ \E k \in Known(1) :
           /\ k \in DOMAIN cur_at_call[1] /\ HasVocabulary(cur_at_call[1][k])
           /\ k \in DOMAIN prev_dict[1].jobs /\ HasVocabulary(prev_dict[1].jobs[k])

\* C6 as stated: after a run that removed jobs and saved them to the file, a
\* second run on the pruned batch, when its fit does not fail, returns an
\* empty list and leaves the current batch and the file as they were.
C6_SecondRunReturnsEmpty ==
    \A p \in Procs :
        (/\ rerun[p] /\ Finished(p)
         /\ first_removed[p] # {} /\ first_removed[p] \subseteq Known(p)
         /\ error[p] # "EmptyVocabulary") =>
            /\ pc[p] = "returned"
            /\ duplicate_jobs_list[p] = <<>>
            /\ cur_dict[p] = cur_at_call[p]
            /\ file = file_at_call[p]

\* C6 amended: a second run on the pruned batch removes nothing more: it
\* fails with a ValueError or returns an empty list, makes no merge call and
\* leaves the current batch and the file as the first run left them.
C6_SecondRunRemovesNothing ==
    \A p \in Procs :
        (rerun[p] /\ Finished(p)) =>
            /\ pc[p] = "raised" \/ duplicate_jobs_list[p] = <<>>
            /\ merge_calls[p] = <<>>
            /\ cur_dict[p] = cur_at_call[p]
            /\ file = file_at_call[p]
            /\ ~wrote[p]

\* C6 witness: the first run removed a job and saved it, jobs are left in the
\* batch, and the second run has finished.
C6_Witness ==
    /\ rerun[1] /\ Finished(1)
    /\ first_removed[1] # {}
    /\ first_removed[1] \subseteq Known(1)
    /\ cur_at_call[1] # EmptyDict

\* The key_ids a call with the arguments and the vector space of p, but the
\* threshold t, finds duplicate; at p's own threshold, what p removed.
RemovedAt(p, t) ==
    IF t = max_similarity[p] THEN Removed(p)
    ELSE Resolution(cur_at_call[p], prev_dict[p].jobs,
                    IF duplicate_jobs_file[p] # None /\ file_at_call[p].exists
                    THEN file_at_call[p].data ELSE EmptyDict,
                    xy_similarity[p], t).duplicate_ids

\* C8: for thresholds t1 < t2 the key_ids removed at t1 include those removed
\* at t2, everything else being the same.
C8_ThresholdMonotonicity ==
    \A p \in Procs :
        Resolved(p) =>
            \A t1, t2 \in Thresholds :
                t1 < t2 => RemovedAt(p, t2) \subseteq RemovedAt(p, t1)

\* C8 witness: a call that removed some jobs, where a lower threshold removes
\* more and a higher one fewer.
C8_Witness ==
    /\ pc[1] = "returned"
    /\ Removed(1) # {}
    /\ \E t1, t2 \in Thresholds :
           /\ t1 < max_similarity[1] /\ max_similarity[1] < t2
           /\ RemovedAt(1, t1) # Removed(1)
           /\ RemovedAt(1, t2) # Removed(1)

\* C9: a run that found no duplicate has removed nothing from the current
\* batch and has not written the file, which is what it was when the run was
\* called.
C9_NoDuplicatesNoSaveNoRemoval ==
    \A p \in Procs :
        (Finished(p) /\ duplicate_jobs_list[p] = <<>>) =>
            /\ DOMAIN cur_dict[p] = DOMAIN cur_at_call[p]
            /\ ~wrote[p]
            /\ file = file_at_call[p]

\* C9 witness: a run with a path and eligible jobs has returned without a
\* duplicate, and there is still no file.
C9_Witness ==
    /\ pc[1] = "returned"
    /\ duplicate_jobs_list[1] = <<>>
    /\ duplicate_jobs_file[1] = PATH
    /\ query_ids[1] # <<>>
    /\ ~file.exists

\* C10: of two invocations on the same path that both saved, if the second
\* loaded after the first returned the file holds the duplicates of both, and
\* if both loaded before either saved the file is what the last writer loaded
\* plus its own duplicates, so a duplicate of the first writer that the last
\* one neither loaded nor found is not in it.
C10_LastWriterWins ==
    \A p, q \in Procs :
        (/\ p # q
         /\ pc[p] = "returned" /\ pc[q] = "returned"
         /\ wrote[p] /\ wrote[q]
         /\ last_writer = q) =>
            /\ file.exists
            /\ ~overlap =>
                   KeysOf(duplicate_jobs_list[p]) \cup KeysOf(duplicate_jobs_list[q])
                       \subseteq DOMAIN file.data
            /\ overlap =>
                   DOMAIN file.data = Known(q) \cup KeysOf(duplicate_jobs_list[q])

\* C10 witness: both loaded before either saved, both saved, and a duplicate
\* the first writer saved is not in the file.
C10_Witness ==
    \E p, q \in Procs :
        /\ p # q
        /\ pc[p] = "returned" /\ pc[q] = "returned"
        /\ wrote[p] /\ wrote[q]
        /\ last_writer = q
        /\ overlap
        /\ \E k \in KeysOf(duplicate_jobs_list[p]) : k \notin DOMAIN file.data

====
